---- MODULE Spec2Model ----
(***************************************************************************)
(* CircularQueue<T> (src/circularqueue.h): a fixed-capacity ring buffer    *)
(* with one write cursor and one read cursor held in std::atomic<size_t>.  *)
(*                                                                         *)
(* Two threads use the queue.  The producer thread calls enqueue,          *)
(* forceEnqueue and clear; the consumer thread calls dequeue.  Every       *)
(* atomic load, atomic store and slot access of a member function is one   *)
(* step, so that TLC explores every interleaving of the two threads.  The  *)
(* atomics are modelled as sequentially consistent cells.                  *)
(***************************************************************************)
EXTENDS Integers, Sequences, FiniteSets, TLC

(* ------------------------------ bounds -------------------------------- *)

\* width of size_t in the model: arithmetic on size_t is taken modulo 2^SizeBits
SizeBits == 10
\* largest capacity requested from the constructor in the queue specifications
MaxRequest == 4
\* largest capacity requested in the constructor specification
MaxCtorRequest == 64
\* number of calls the producer thread makes (enqueue, forceEnqueue)
MaxItems == 5
\* number of dequeue calls the consumer thread makes
MaxDeq == 4
\* number of clear calls
MaxClear == 1

(* ------------------------- size_t arithmetic -------------------------- *)

RECURSIVE Pow2(_)
Pow2(k) == IF k = 0 THEN 1 ELSE 2 * Pow2(k - 1)

\* the number of values of a size_t
SizeMod == Pow2(SizeBits)

\* a + b on size_t
Add(a, b) == (a + b) % SizeMod

\* a - b on size_t (wraps below zero)
Sub(a, b) == (a - b + SizeMod) % SizeMod

\* x << 1 on size_t
Shl1(x) == (2 * x) % SizeMod

\* a & b on size_t
RECURSIVE BitAnd(_, _)
BitAnd(a, b) ==
    IF a = 0 \/ b = 0 THEN 0
    ELSE (a % 2) * (b % 2) + 2 * BitAnd(a \div 2, b \div 2)

(* ---------------------------- element type ---------------------------- *)

\* T(): the value std::vector<T>(n) fills its slots with
DefaultT == 0
\* what a copy that races with a write of the same slot may deliver besides
\* the old and the new value
TornT == -1
\* placeholder of a member before the constructor has run
NoObject == -1

(* ------------------------------- state -------------------------------- *)

VARIABLES
    requested,      \* the constructor's argument
    constructed,    \* whether the constructor has run
    m_capacity, m_mask, m_buffer, m_writeIndex, m_readIndex,
    ppc,            \* producer thread: position in its current call
    p_item,         \* producer: the argument item
    currentWrite,   \* producer: local currentWrite
    nextWrite,      \* producer: local nextWrite
    p_read,         \* producer: the value loaded from m_readIndex inside line 69
    p_ret,          \* producer: the value returned by its last enqueue
    cpc,            \* consumer thread: position in its current call
    currentRead,    \* consumer: local currentRead
    c_item,         \* consumer: the caller's variable bound to T& item
    c_ret,          \* consumer: the value returned by its last dequeue
    accepted,       \* history: the items of the enqueues that returned true
    delivered,      \* history: the items of the dequeues that returned true
    nItems,         \* history: number of enqueue / forceEnqueue calls started
    nDeq,           \* history: number of dequeue calls started
    nClear,         \* history: number of clear calls started
    lastOp,         \* history: the member function that returned last
    p_pre,          \* history: the queue when the producer's last call started
    s_write,        \* consumer: local write of size()
    s_ret,          \* consumer: the value returned by its last size()
    s_seen,         \* history: the values of size the queue has had since
                    \* the first load of the size() call in flight
    w_msgs,         \* the stores to m_writeIndex in modification order, each
                    \* with the clock its memory order publishes
    r_msgs,         \* the stores to m_readIndex, likewise
    p_view,         \* producer: the newest store to m_readIndex it has loaded
    c_view,         \* consumer: the newest store to m_writeIndex it has loaded
    p_vc,           \* producer: what happens before its next step, as a clock
    c_vc,           \* consumer: likewise
    slot_w,         \* per slot: the producer's clock at its last write and
                    \* the value the write replaced
    slot_r,         \* per slot: the consumer's clock at its last copy
    raced           \* whether two conflicting accesses to a slot were
                    \* unordered by happens-before

members == <<m_capacity, m_mask, m_buffer, m_writeIndex, m_readIndex>>
shared == <<m_buffer, m_writeIndex, m_readIndex>>
ctor == <<requested, constructed, m_capacity, m_mask>>
plocals == <<p_item, currentWrite, nextWrite, p_read>>
clocals == <<currentRead>>
hist == <<accepted, delivered, nItems, nDeq, nClear, lastOp, p_pre>>
vars == <<requested, constructed, m_capacity, m_mask, m_buffer, m_writeIndex,
          m_readIndex, ppc, p_item, currentWrite, nextWrite, p_read, p_ret,
          cpc, currentRead, c_item, c_ret, accepted, delivered, nItems, nDeq,
          nClear, lastOp, p_pre, s_write, s_ret, s_seen, w_msgs, r_msgs,
          p_view, c_view, p_vc, c_vc, slot_w, slot_r, raced>>
sizecall == <<s_write, s_ret, s_seen>>
weak == <<w_msgs, r_msgs, p_view, c_view, p_vc, c_vc, slot_w, slot_r, raced>>

\* the clock of an event that happens before every step of both threads
ZeroVC == [p |-> 0, c |-> 0]

\* lines 24-25: the constructor's initialisation of a cursor
InitMsg == [val |-> 0, vc |-> ZeroVC]

(* ---------------------------- constructor ----------------------------- *)

\* the loop of lines 30-33, entered with powerOf2 = 1
RECURSIVE NextPowerOf2(_, _)
NextPowerOf2(powerOf2, capacity) ==
    IF powerOf2 < capacity
    THEN NextPowerOf2(Shl1(powerOf2), capacity)
    ELSE powerOf2

\* the test of line 28
NotPowerOf2(capacity) == BitAnd(capacity, Sub(capacity, 1)) # 0

\* a constructor that keeps the requested capacity
CtorCapacity_keep(capacity) == capacity

\* m_capacity when the constructor returns
CtorCapacity(capacity) ==
    IF NotPowerOf2(capacity) THEN NextPowerOf2(1, capacity) ELSE capacity

\* m_mask when the constructor returns
CtorMask(capacity) ==
    IF NotPowerOf2(capacity)
    THEN Sub(CtorCapacity(capacity), 1)
    ELSE Sub(capacity, 1)

\* m_buffer when the constructor returns: capacity value-initialised slots,
\* resized to m_capacity in the branch of line 28
CtorBuffer(capacity) ==
    IF NotPowerOf2(capacity)
    THEN [i \in 0 .. (CtorCapacity(capacity) - 1) |-> DefaultT]
    ELSE [i \in 0 .. (capacity - 1) |-> DefaultT]

\* the thread-local and history variables of a queue nobody has used yet
Fresh ==
    /\ ppc = "idle" /\ p_item = 0 /\ currentWrite = 0 /\ nextWrite = 0
    /\ p_read = 0 /\ p_ret = FALSE
    /\ cpc = "idle" /\ currentRead = 0 /\ c_item = DefaultT /\ c_ret = FALSE
    /\ accepted = <<>> /\ delivered = <<>>
    /\ nItems = 0 /\ nDeq = 0 /\ nClear = 0
    /\ lastOp = "construct"
    /\ s_write = 0 /\ s_ret = 0 /\ s_seen = {}
    /\ w_msgs = <<InitMsg>> /\ r_msgs = <<InitMsg>>
    /\ p_view = 1 /\ c_view = 1
    /\ p_vc = [p |-> 1, c |-> 0] /\ c_vc = [p |-> 0, c |-> 1]
    /\ slot_w = [i \in {} |-> 0] /\ slot_r = [i \in {} |-> 0]
    /\ raced = FALSE

\* the state when CircularQueue(capacity) has returned
Constructed(capacity) ==
    /\ requested = capacity
    /\ constructed = TRUE
    /\ m_capacity = CtorCapacity(capacity)
    /\ m_mask = CtorMask(capacity)
    /\ m_buffer = CtorBuffer(capacity)
    /\ m_writeIndex = 0
    /\ m_readIndex = 0
    /\ p_pre = [w |-> 0, r |-> 0, buf |-> CtorBuffer(capacity), item |-> 0]
    /\ Fresh

\* CircularQueue(requested) runs
Construct ==
    /\ constructed = FALSE
    /\ constructed' = TRUE
    /\ m_capacity' = CtorCapacity(requested)
    /\ m_mask' = CtorMask(requested)
    /\ m_buffer' = CtorBuffer(requested)
    /\ m_writeIndex' = 0
    /\ m_readIndex' = 0
    /\ UNCHANGED <<requested, plocals, ppc, p_ret, cpc, clocals, c_item, c_ret,
                   hist, sizecall>>
    /\ UNCHANGED weak

(* ------------------------ cursors and contents ------------------------ *)

\* a cursor advanced without wrapping
NextIndex_noMask(i) == Add(i, 1)

\* (i + 1) & m_mask
NextIndex(i) == BitAnd(Add(i, 1), m_mask)

\* isEmpty()
isEmpty == m_readIndex = m_writeIndex

\* isFull()
isFull == NextIndex(m_writeIndex) = m_readIndex

\* a size() that does not wrap the difference of the cursors
size_noMask == Sub(m_writeIndex, m_readIndex)

\* size()
size == BitAnd(Sub(m_writeIndex, m_readIndex), m_mask)

\* the slots from read cursor r up to write cursor w of buffer buf, oldest first
ContentsOf(w, r, buf) ==
    [k \in 1 .. BitAnd(Sub(w, r), m_mask) |-> buf[BitAnd(Add(r, k - 1), m_mask)]]

Contents == ContentsOf(m_writeIndex, m_readIndex, m_buffer)

\* the queue as a call of the producer finds it
Snapshot(item) ==
    [w |-> m_writeIndex, r |-> m_readIndex, buf |-> m_buffer, item |-> item]

\* a step of the producer while a size() call of the consumer is between its
\* two loads: the value size has after the step is recorded
Observed ==
    s_seen' = IF cpc = "size_loadRead" THEN s_seen \cup {size'} ELSE s_seen


(* --------------------------- call protocol ---------------------------- *)

consumer == <<cpc, currentRead, c_item, c_ret, s_write, s_ret>>
producer == <<ppc, p_item, currentWrite, nextWrite, p_read, p_ret>>

\* the producer's call of member function op returns: its locals die
PReturn(op) ==
    /\ ppc' = "idle"
    /\ p_item' = 0 /\ currentWrite' = 0 /\ nextWrite' = 0 /\ p_read' = 0
    /\ lastOp' = op

\* the consumer's call of dequeue returns ret
CReturn(ret) ==
    /\ cpc' = "idle"
    /\ currentRead' = 0
    /\ c_ret' = ret
    /\ lastOp' = "dequeue"

\* a full test that never finds the queue full
QueueFull_never(next, read) == FALSE

\* nextWrite == m_readIndex.load(acquire), lines 49 and 67
QueueFull(next, read) == next = read

\* an empty test that never finds the queue empty
QueueEmpty_never(read, write) == FALSE

\* an empty test that always finds the queue empty
QueueEmpty_always(read, write) == TRUE

\* currentRead == m_writeIndex.load(acquire), line 85
QueueEmpty(read, write) == read = write

(* ------------------------------ enqueue ------------------------------- *)

\* lines 45-47: the call, the relaxed load of m_writeIndex, nextWrite
enqueue_loadWrite ==
    /\ constructed /\ ppc = "idle" /\ nItems < MaxItems
    /\ nItems' = nItems + 1
    /\ p_item' = nItems + 1
    /\ currentWrite' = m_writeIndex
    /\ nextWrite' = NextIndex(m_writeIndex)
    /\ p_pre' = Snapshot(nItems + 1)
    /\ ppc' = "enqueue_checkFull"
    /\ UNCHANGED <<ctor, shared, p_read, p_ret, consumer, accepted, delivered,
                   nDeq, nClear, lastOp>>
    /\ Observed
    /\ UNCHANGED weak

\* an enqueue that stores the item before it tests for a full queue
enqueue_checkFull_writeFirst ==
    /\ ppc = "enqueue_checkFull"
    /\ m_buffer' = [m_buffer EXCEPT ![currentWrite] = p_item]
    /\ IF QueueFull(nextWrite, m_readIndex)
       THEN /\ PReturn("enqueue")
            /\ p_ret' = FALSE
       ELSE /\ ppc' = "enqueue_storeWrite"
            /\ UNCHANGED <<plocals, p_ret, lastOp>>
    /\ UNCHANGED <<ctor, m_writeIndex, m_readIndex, consumer, accepted,
                   delivered, nItems, nDeq, nClear, p_pre>>
    /\ Observed
    /\ UNCHANGED weak

\* lines 49-52: the acquire load of m_readIndex and the full test
enqueue_checkFull ==
    /\ ppc = "enqueue_checkFull"
    /\ IF QueueFull(nextWrite, m_readIndex)
       THEN /\ PReturn("enqueue")
            /\ p_ret' = FALSE
       ELSE /\ ppc' = "enqueue_writeSlot"
            /\ UNCHANGED <<plocals, p_ret, lastOp>>
    /\ UNCHANGED <<ctor, shared, consumer, accepted, delivered, nItems, nDeq,
                   nClear, p_pre>>
    /\ Observed
    /\ UNCHANGED weak

\* line 54: m_buffer[currentWrite] = item
enqueue_writeSlot ==
    /\ ppc = "enqueue_writeSlot"
    /\ m_buffer' = [m_buffer EXCEPT ![currentWrite] = p_item]
    /\ ppc' = "enqueue_storeWrite"
    /\ UNCHANGED <<ctor, m_writeIndex, m_readIndex, plocals, p_ret, consumer,
                   hist>>
    /\ Observed
    /\ UNCHANGED weak

\* lines 55-56: the release store of m_writeIndex, return true
enqueue_storeWrite ==
    /\ ppc = "enqueue_storeWrite"
    /\ m_writeIndex' = nextWrite
    /\ accepted' = Append(accepted, p_item)
    /\ PReturn("enqueue")
    /\ p_ret' = TRUE
    /\ UNCHANGED <<ctor, m_buffer, m_readIndex, consumer, delivered, nItems,
                   nDeq, nClear, p_pre>>
    /\ Observed
    /\ UNCHANGED weak

(* ---------------------------- forceEnqueue ---------------------------- *)

\* lines 63-65: the call, the relaxed load of m_writeIndex, nextWrite
forceEnqueue_loadWrite ==
    /\ constructed /\ ppc = "idle" /\ nItems < MaxItems
    /\ nItems' = nItems + 1
    /\ p_item' = nItems + 1
    /\ currentWrite' = m_writeIndex
    /\ nextWrite' = NextIndex(m_writeIndex)
    /\ p_pre' = Snapshot(nItems + 1)
    /\ ppc' = "forceEnqueue_checkFull"
    /\ UNCHANGED <<ctor, shared, p_read, p_ret, consumer, accepted, delivered,
                   nDeq, nClear, lastOp>>
    /\ Observed
    /\ UNCHANGED weak

\* a forceEnqueue that writes over a full queue without moving the read cursor
forceEnqueue_checkFull_noDrop ==
    /\ ppc = "forceEnqueue_checkFull"
    /\ ppc' = "forceEnqueue_writeSlot"
    /\ UNCHANGED <<ctor, shared, plocals, p_ret, consumer, hist>>
    /\ Observed
    /\ UNCHANGED weak

\* line 67: the acquire load of m_readIndex and the full test
forceEnqueue_checkFull ==
    /\ ppc = "forceEnqueue_checkFull"
    /\ IF QueueFull(nextWrite, m_readIndex)
       THEN ppc' = "forceEnqueue_loadRead"
       ELSE ppc' = "forceEnqueue_writeSlot"
    /\ UNCHANGED <<ctor, shared, plocals, p_ret, consumer, hist>>
    /\ Observed
    /\ UNCHANGED weak

\* line 69, the operand: the relaxed load of m_readIndex
forceEnqueue_loadRead ==
    /\ ppc = "forceEnqueue_loadRead"
    /\ p_read' = m_readIndex
    /\ ppc' = "forceEnqueue_storeRead"
    /\ UNCHANGED <<ctor, shared, p_item, currentWrite, nextWrite, p_ret,
                   consumer, hist>>
    /\ Observed
    /\ UNCHANGED weak

\* lines 69-70: the release store of m_readIndex
forceEnqueue_storeRead ==
    /\ ppc = "forceEnqueue_storeRead"
    /\ m_readIndex' = NextIndex(p_read)
    /\ ppc' = "forceEnqueue_writeSlot"
    /\ UNCHANGED <<ctor, m_buffer, m_writeIndex, plocals, p_ret, consumer,
                   hist>>
    /\ Observed
    /\ UNCHANGED weak

\* line 73: m_buffer[currentWrite] = item
forceEnqueue_writeSlot ==
    /\ ppc = "forceEnqueue_writeSlot"
    /\ m_buffer' = [m_buffer EXCEPT ![currentWrite] = p_item]
    /\ ppc' = "forceEnqueue_storeWrite"
    /\ UNCHANGED <<ctor, m_writeIndex, m_readIndex, plocals, p_ret, consumer,
                   hist>>
    /\ Observed
    /\ UNCHANGED weak

\* lines 74-75: the release store of m_writeIndex, return
forceEnqueue_storeWrite ==
    /\ ppc = "forceEnqueue_storeWrite"
    /\ m_writeIndex' = nextWrite
    /\ accepted' = Append(accepted, p_item)
    /\ PReturn("forceEnqueue")
    /\ UNCHANGED <<ctor, m_buffer, m_readIndex, p_ret, consumer, delivered,
                   nItems, nDeq, nClear, p_pre>>
    /\ Observed
    /\ UNCHANGED weak

(* ------------------------------ dequeue ------------------------------- *)

\* the producer is about to write the slot the consumer is about to copy:
\* two unsynchronised accesses to one slot, one of them a write
SlotRace ==
    /\ ppc \in {"enqueue_writeSlot", "forceEnqueue_writeSlot"}
    /\ cpc = "dequeue_copySlot"
    /\ currentWrite = currentRead

\* lines 82-83: the call, the relaxed load of m_readIndex
dequeue_loadRead ==
    /\ constructed /\ cpc = "idle" /\ nDeq < MaxDeq
    /\ nDeq' = nDeq + 1
    /\ currentRead' = m_readIndex
    /\ cpc' = "dequeue_checkEmpty"
    /\ UNCHANGED <<ctor, shared, producer, sizecall, c_item, c_ret, accepted, delivered,
                   nItems, nClear, lastOp, p_pre>>
    /\ UNCHANGED weak

\* a dequeue that copies the slot before it tests for an empty queue
dequeue_checkEmpty_copyFirst ==
    /\ cpc = "dequeue_checkEmpty"
    /\ c_item' = m_buffer[currentRead]
    /\ IF QueueEmpty(currentRead, m_writeIndex)
       THEN CReturn(FALSE)
       ELSE /\ cpc' = "dequeue_storeRead"
            /\ UNCHANGED <<currentRead, c_ret, lastOp>>
    /\ UNCHANGED <<ctor, shared, producer, sizecall, accepted, delivered, nItems, nDeq,
                   nClear, p_pre>>
    /\ UNCHANGED weak

\* lines 85-88: the acquire load of m_writeIndex and the empty test
dequeue_checkEmpty ==
    /\ cpc = "dequeue_checkEmpty"
    /\ IF QueueEmpty(currentRead, m_writeIndex)
       THEN CReturn(FALSE)
       ELSE /\ cpc' = "dequeue_copySlot"
            /\ UNCHANGED <<currentRead, c_ret, lastOp>>
    /\ UNCHANGED <<ctor, shared, producer, sizecall, c_item, accepted, delivered, nItems,
                   nDeq, nClear, p_pre>>
    /\ UNCHANGED weak

\* line 90: item = m_buffer[currentRead]; a copy that races with the
\* producer's write of the same slot delivers the old value, the new value
\* or a torn one
dequeue_copySlot ==
    /\ cpc = "dequeue_copySlot"
    /\ c_item' \in (IF SlotRace THEN {m_buffer[currentRead], p_item, TornT}
                                ELSE {m_buffer[currentRead]})
    /\ cpc' = "dequeue_storeRead"
    /\ UNCHANGED <<ctor, shared, producer, sizecall, currentRead, c_ret, hist>>
    /\ UNCHANGED weak

\* lines 91-92: the release store of m_readIndex, return true
dequeue_storeRead ==
    /\ cpc = "dequeue_storeRead"
    /\ m_readIndex' = NextIndex(currentRead)
    /\ delivered' = Append(delivered, c_item)
    /\ CReturn(TRUE)
    /\ UNCHANGED <<ctor, m_buffer, m_writeIndex, producer, sizecall, c_item, accepted,
                   nItems, nDeq, nClear, p_pre>>
    /\ UNCHANGED weak

(* ------------------------------- clear -------------------------------- *)

\* lines 134-135: the call and the acquire load of m_writeIndex, kept in
\* currentWrite
clear_loadWrite ==
    /\ constructed /\ ppc = "idle" /\ nClear < MaxClear
    /\ nClear' = nClear + 1
    /\ currentWrite' = m_writeIndex
    /\ p_pre' = Snapshot(0)
    /\ ppc' = "clear_storeRead"
    /\ UNCHANGED <<ctor, shared, p_item, nextWrite, p_read, p_ret, consumer,
                   accepted, delivered, nItems, nDeq, lastOp>>
    /\ Observed
    /\ UNCHANGED weak

\* a clear that sets the read cursor to 0 instead of the write cursor
clear_storeRead_toZero ==
    /\ ppc = "clear_storeRead"
    /\ m_readIndex' = 0
    /\ PReturn("clear")
    /\ UNCHANGED <<ctor, m_buffer, m_writeIndex, p_ret, consumer, accepted,
                   delivered, nItems, nDeq, nClear, p_pre>>
    /\ Observed
    /\ UNCHANGED weak

\* lines 135-137: the release store of m_readIndex, return
clear_storeRead ==
    /\ ppc = "clear_storeRead"
    /\ m_readIndex' = currentWrite
    /\ PReturn("clear")
    /\ UNCHANGED <<ctor, m_buffer, m_writeIndex, p_ret, consumer, accepted,
                   delivered, nItems, nDeq, nClear, p_pre>>
    /\ Observed
    /\ UNCHANGED weak

(* -------------------------------- size -------------------------------- *)

\* lines 117-118: the call and the acquire load of m_writeIndex
size_loadWrite ==
    /\ constructed /\ cpc = "idle"
    /\ s_write' = m_writeIndex
    /\ s_seen' = {size}
    /\ cpc' = "size_loadRead"
    /\ UNCHANGED <<ctor, shared, producer, currentRead, c_item, c_ret, s_ret,
                   hist>>
    /\ UNCHANGED weak

\* a size() that does not wrap the difference of the cursors
size_loadRead_noMask ==
    /\ cpc = "size_loadRead"
    /\ s_ret' = Sub(s_write, m_readIndex)
    /\ s_write' = 0
    /\ s_seen' = {}
    /\ cpc' = "idle"
    /\ lastOp' = "size"
    /\ UNCHANGED <<ctor, shared, producer, currentRead, c_item, c_ret, accepted,
                   delivered, nItems, nDeq, nClear, p_pre>>
    /\ UNCHANGED weak

\* lines 119-120: the acquire load of m_readIndex, return (write - read) & m_mask
size_loadRead ==
    /\ cpc = "size_loadRead"
    /\ s_ret' = BitAnd(Sub(s_write, m_readIndex), m_mask)
    /\ s_write' = 0
    /\ s_seen' = {}
    /\ cpc' = "idle"
    /\ lastOp' = "size"
    /\ UNCHANGED <<ctor, shared, producer, currentRead, c_item, c_ret, accepted,
                   delivered, nItems, nDeq, nClear, p_pre>>
    /\ UNCHANGED weak

(* --------------------------- specifications --------------------------- *)

\* the capacities requested of a queue the two threads then share
Requests == 2 .. MaxRequest

\* the capacities requested of a queue used by one thread at a time
SeqRequests == 1 .. MaxRequest

\* no call is in flight
Quiescent == ppc = "idle" /\ cpc = "idle"

\* one producer thread calling enqueue, one consumer thread calling dequeue
InitED == \E capacity \in Requests : Constructed(capacity)

NextED ==
    \/ enqueue_loadWrite
    \/ enqueue_checkFull
    \/ enqueue_writeSlot
    \/ enqueue_storeWrite
    \/ dequeue_loadRead
    \/ dequeue_checkEmpty
    \/ dequeue_copySlot
    \/ dequeue_storeRead

SpecED == InitED /\ [][NextED]_vars

\* one producer thread calling forceEnqueue, one consumer thread calling dequeue
InitFD == \E capacity \in Requests : Constructed(capacity)

NextFD ==
    \/ forceEnqueue_loadWrite
    \/ forceEnqueue_checkFull
    \/ forceEnqueue_loadRead
    \/ forceEnqueue_storeRead
    \/ forceEnqueue_writeSlot
    \/ forceEnqueue_storeWrite
    \/ dequeue_loadRead
    \/ dequeue_checkEmpty
    \/ dequeue_copySlot
    \/ dequeue_storeRead

SpecFD == InitFD /\ [][NextFD]_vars

\* sequential use: a call starts only when no other call is in flight
InitSeq == \E capacity \in SeqRequests : Constructed(capacity)

NextSeq ==
    \/ Quiescent /\ enqueue_loadWrite
    \/ enqueue_checkFull
    \/ enqueue_writeSlot
    \/ enqueue_storeWrite
    \/ Quiescent /\ forceEnqueue_loadWrite
    \/ forceEnqueue_checkFull
    \/ forceEnqueue_loadRead
    \/ forceEnqueue_storeRead
    \/ forceEnqueue_writeSlot
    \/ forceEnqueue_storeWrite
    \/ Quiescent /\ dequeue_loadRead
    \/ dequeue_checkEmpty
    \/ dequeue_copySlot
    \/ dequeue_storeRead
    \/ Quiescent /\ clear_loadWrite
    \/ clear_storeRead

SpecSeq == InitSeq /\ [][NextSeq]_vars

\* the constructor alone, applied to every request
InitCtor ==
    /\ requested \in 0 .. MaxCtorRequest
    /\ constructed = FALSE
    /\ m_capacity = NoObject /\ m_mask = NoObject /\ m_buffer = <<>>
    /\ m_writeIndex = NoObject /\ m_readIndex = NoObject
    /\ p_pre = [w |-> 0, r |-> 0, buf |-> <<>>, item |-> 0]
    /\ Fresh

NextCtor == Construct

SpecCtor == InitCtor /\ [][NextCtor]_vars


(* ------------------------------- claims ------------------------------- *)

IsPrefix(s, t) ==
    /\ Len(s) <= Len(t)
    /\ \A i \in 1 .. Len(s) : s[i] = t[i]

Range(s) == {s[i] : i \in 1 .. Len(s)}

\* number of elements accepted by an enqueue and not yet removed by a dequeue
Resident == Len(accepted) - Len(delivered)

\* C1: with a producer calling enqueue and a consumer calling dequeue, in
\* every interleaving the values returned by the successful dequeues are a
\* prefix of the values accepted by the successful enqueues.
C1_DeliveredPrefixOfAccepted == IsPrefix(delivered, accepted)

\* three elements have gone through a queue of two slots (the cursors have
\* wrapped) while an enqueue is in flight
C1_Witness ==
    /\ m_capacity = 2
    /\ Len(delivered) >= 3
    /\ ppc = "enqueue_storeWrite"
    /\ delivered = SubSeq(accepted, 1, Len(delivered))

\* C2: with a producer calling enqueue and a consumer calling dequeue, in
\* every reachable state at most capacity - 1 elements are resident.
C2_ResidentBelowCapacity == Resident >= 0 /\ Resident <= m_capacity - 1

\* a queue of four slots holds three elements and the enqueue that finds it
\* full is in flight
C2_Witness ==
    /\ m_capacity = 4
    /\ Resident = 3
    /\ ppc = "enqueue_checkFull"

\* C3: with a producer calling enqueue and a consumer calling dequeue, the
\* slot of an enqueue between its full test and its store of the write cursor
\* is never the slot of a dequeue between its empty test and its store of the
\* read cursor.
C3_NoSharedSlot ==
    ~ /\ ppc \in {"enqueue_writeSlot", "enqueue_storeWrite"}
      /\ cpc \in {"dequeue_copySlot", "dequeue_storeRead"}
      /\ currentWrite = currentRead

\* an enqueue is about to write the last free slot of a queue of four slots
\* while a dequeue is about to copy the oldest element, after the write
\* cursor has wrapped
C3_Witness ==
    /\ ppc = "enqueue_writeSlot"
    /\ cpc = "dequeue_copySlot"
    /\ currentWrite # currentRead
    /\ m_capacity = 4
    /\ Resident = 2
    /\ currentWrite < currentRead

\* C4: with a producer calling forceEnqueue and a consumer calling dequeue,
\* the producer never writes the slot an in-flight dequeue is copying from.
C4_ForceNoSharedSlot ==
    ~ /\ ppc \in {"forceEnqueue_writeSlot", "forceEnqueue_storeWrite"}
      /\ cpc \in {"dequeue_copySlot", "dequeue_storeRead"}
      /\ currentWrite = currentRead

\* C5: once forceEnqueue(x) has returned and the producer does nothing more,
\* no dequeue reports the queue empty before x has been returned: in a state
\* where a dequeue has returned false after the producer's last forceEnqueue
\* returned, the item of that forceEnqueue is among the delivered items.
C5_ForcedItemDelivered ==
    (/\ nItems >= 1
     /\ ppc = "idle"
     /\ cpc = "idle"
     /\ lastOp = "dequeue"
     /\ c_ret = FALSE)
    => nItems \in Range(delivered)

\* the queue as the producer's last call found it
PreContents == ContentsOf(p_pre.w, p_pre.r, p_pre.buf)
PreFull == (p_pre.w + 1) % m_capacity = p_pre.r

\* what a successful enqueue(x) does to the queue it found
InsertedAtEnd ==
    /\ Contents = Append(PreContents, p_pre.item)
    /\ m_readIndex = p_pre.r
    /\ m_writeIndex = (p_pre.w + 1) % m_capacity
    /\ m_buffer = [p_pre.buf EXCEPT ![p_pre.w] = p_pre.item]

C6_AfterForce ==
    (m_capacity >= 2 /\ ppc = "idle") =>
        /\ (lastOp = "forceEnqueue" /\ PreFull) =>
              /\ Len(PreContents) = m_capacity - 1
              /\ Contents = Append(Tail(PreContents), p_pre.item)
              /\ size = m_capacity - 1
        /\ (lastOp = "forceEnqueue" /\ ~PreFull) => InsertedAtEnd
        /\ (lastOp = "enqueue" /\ p_ret) => InsertedAtEnd

C6_DequeueTakesOldest ==
    (cpc = "dequeue_storeRead" /\ cpc' = "idle") =>
        /\ Contents # <<>>
        /\ c_ret'
        /\ c_item' = Head(Contents)
        /\ Contents' = Tail(Contents)

\* C6: in a sequential execution on a queue of capacity >= 2, forceEnqueue(x)
\* on a full queue discards exactly the oldest element and leaves size() at
\* capacity - 1 with x last; on a queue that is not full it leaves the read
\* cursor alone and does what a successful enqueue(x) does; every successful
\* dequeue returns the oldest element and leaves the others in order.
C6_ForceEnqueueSequential == []C6_AfterForce /\ [][C6_DequeueTakesOldest]_vars

\* forceEnqueue has returned on a queue of four slots that it found full
C6_Witness ==
    /\ m_capacity = 4
    /\ lastOp = "forceEnqueue"
    /\ ppc = "idle"
    /\ PreFull
    /\ Len(Contents) = 3
    /\ Contents[3] = p_pre.item

\* C7: in a sequential execution, for every capacity the constructor makes of
\* a request >= 1, immediately after forceEnqueue(x) returns isEmpty() is
\* false and the dequeue called next finds the queue non-empty.
C7_ForceEnqueueInserts ==
    (lastOp = "forceEnqueue" /\ ppc = "idle") =>
        /\ ~isEmpty
        /\ cpc = "dequeue_checkEmpty" => currentRead # m_writeIndex

\* C8: every step of an enqueue that finds the queue full leaves the write
\* cursor, the read cursor and the slots as they are, and the call returns
\* false.
C8_FullEnqueueStep ==
    /\ (ppc = "idle" /\ ppc' = "enqueue_checkFull") => UNCHANGED shared
    /\ (/\ ppc = "enqueue_checkFull"
        /\ ppc' # ppc
        /\ (currentWrite + 1) % m_capacity = m_readIndex)
       => /\ ppc' = "idle"
          /\ lastOp' = "enqueue"
          /\ p_ret' = FALSE
          /\ UNCHANGED shared

C8_FullEnqueueMutatesNothing == [][C8_FullEnqueueStep]_vars

\* an enqueue has returned false on a queue of four slots holding three
\* elements
C8_Witness ==
    /\ lastOp = "enqueue"
    /\ ppc = "idle"
    /\ p_ret = FALSE
    /\ m_capacity = 4
    /\ Resident = 3

\* C9: every step of a dequeue that finds the queue empty leaves the caller's
\* item, both cursors and the slots as they are, and the call returns false.
C9_EmptyDequeueStep ==
    /\ (cpc = "idle" /\ cpc' = "dequeue_checkEmpty") =>
          UNCHANGED <<shared, c_item>>
    /\ (/\ cpc = "dequeue_checkEmpty"
        /\ cpc' # cpc
        /\ currentRead = m_writeIndex)
       => /\ cpc' = "idle"
          /\ lastOp' = "dequeue"
          /\ c_ret' = FALSE
          /\ UNCHANGED <<shared, c_item>>

C9_EmptyDequeueMutatesNothing == [][C9_EmptyDequeueStep]_vars

\* a dequeue has returned false after an earlier one delivered an element,
\* and the caller's item still holds that element
C9_Witness ==
    /\ lastOp = "dequeue"
    /\ cpc = "idle"
    /\ c_ret = FALSE
    /\ Len(delivered) >= 1
    /\ c_item = delivered[Len(delivered)]
    /\ Resident = 0

\* the powers of two a size_t can hold
PowersOf2 == {Pow2(k) : k \in 0 .. (SizeBits - 1)}

SmallestPowerOf2AtLeast(n) ==
    CHOOSE p \in PowersOf2 :
        /\ p >= n
        /\ \A q \in PowersOf2 : q >= n => p <= q

\* C10: for every request n >= 1, construction yields the smallest power of
\* two >= n as capacity, mask = capacity - 1, a backing store of exactly
\* capacity slots, and both cursors at 0.
C10_ConstructorNormalises ==
    (constructed /\ requested >= 1) =>
        /\ m_capacity = SmallestPowerOf2AtLeast(requested)
        /\ m_mask = m_capacity - 1
        /\ DOMAIN m_buffer = 0 .. (m_capacity - 1)
        /\ m_writeIndex = 0
        /\ m_readIndex = 0

\* the constructor has turned a request of 5 into a capacity of 8
C10_Witness ==
    /\ constructed
    /\ requested = 5
    /\ m_capacity = 8
    /\ m_mask = 7
    /\ Cardinality(DOMAIN m_buffer) = 8

\* C11: after construction with any request, a request of 0 included,
\* capacity() is a power of two >= 1, mask is capacity - 1 without underflow,
\* and the backing store has capacity slots.
C11_ConstructorAnyRequest ==
    constructed =>
        /\ m_capacity \in PowersOf2
        /\ m_capacity >= 1
        /\ m_mask = m_capacity - 1
        /\ DOMAIN m_buffer = 0 .. (m_capacity - 1)

\* every member function that changes the queue, with the calls of the two
\* threads interleaved in every way
InitAll == \E capacity \in SeqRequests : Constructed(capacity)

NextAll ==
    \/ enqueue_loadWrite
    \/ enqueue_checkFull
    \/ enqueue_writeSlot
    \/ enqueue_storeWrite
    \/ forceEnqueue_loadWrite
    \/ forceEnqueue_checkFull
    \/ forceEnqueue_loadRead
    \/ forceEnqueue_storeRead
    \/ forceEnqueue_writeSlot
    \/ forceEnqueue_storeWrite
    \/ clear_loadWrite
    \/ clear_storeRead
    \/ dequeue_loadRead
    \/ dequeue_checkEmpty
    \/ dequeue_copySlot
    \/ dequeue_storeRead

SpecAll == InitAll /\ [][NextAll]_vars

\* C12: for a queue constructed from a request >= 1, in every state of every
\* interleaving of enqueue, forceEnqueue, dequeue and clear both cursors are
\* in 0 .. capacity - 1 and every index used to write or read a slot is less
\* than the length of the storage.
C12_IndicesInRange ==
    /\ m_writeIndex \in 0 .. (m_capacity - 1)
    /\ m_readIndex \in 0 .. (m_capacity - 1)
    /\ ppc \in {"enqueue_writeSlot", "forceEnqueue_writeSlot"} =>
          /\ currentWrite >= 0
          /\ currentWrite < Cardinality(DOMAIN m_buffer)
          /\ currentWrite \in DOMAIN m_buffer
    /\ cpc = "dequeue_copySlot" =>
          /\ currentRead >= 0
          /\ currentRead < Cardinality(DOMAIN m_buffer)
          /\ currentRead \in DOMAIN m_buffer

\* the write cursor has wrapped to 0 on a queue of four slots, forceEnqueue
\* is about to write the last slot and a dequeue is about to copy a slot
C12_Witness ==
    /\ m_capacity = 4
    /\ ppc = "forceEnqueue_writeSlot"
    /\ currentWrite = 3
    /\ nextWrite = 0
    /\ cpc = "dequeue_copySlot"
    /\ nClear = 1

\* sequential use of enqueue and dequeue alone
InitSeqED == \E capacity \in Requests : Constructed(capacity)

NextSeqED ==
    \/ Quiescent /\ enqueue_loadWrite
    \/ enqueue_checkFull
    \/ enqueue_writeSlot
    \/ enqueue_storeWrite
    \/ Quiescent /\ dequeue_loadRead
    \/ dequeue_checkEmpty
    \/ dequeue_copySlot
    \/ dequeue_storeRead

SpecSeqED == InitSeqED /\ [][NextSeqED]_vars

\* the abstract FIFO sequence run beside the queue: an item enters when its
\* enqueue returns true and the head leaves when a dequeue returns true
Abstract == SubSeq(accepted, Len(delivered) + 1, Len(accepted))

C13_Observers ==
    /\ Len(Abstract) <= m_capacity - 1
    /\ size = Len(Abstract)
    /\ isEmpty <=> Len(Abstract) = 0
    /\ isFull <=> Len(Abstract) = m_capacity - 1
    /\ Contents = Abstract
    /\ IsPrefix(delivered, accepted)

C13_EnqueueReturn ==
    (ppc # "idle" /\ ppc' = "idle") =>
        /\ p_ret' <=> Len(Abstract) < m_capacity - 1
        /\ Abstract' = IF p_ret' THEN Append(Abstract, p_item) ELSE Abstract

C13_DequeueReturn ==
    (cpc # "idle" /\ cpc' = "idle") =>
        /\ c_ret' <=> Abstract # <<>>
        /\ c_ret' => c_item' = Head(Abstract) /\ Abstract' = Tail(Abstract)
        /\ ~c_ret' => Abstract' = Abstract

\* C13: run sequentially beside an abstract FIFO sequence bounded at
\* capacity - 1 elements (capacity >= 2), enqueue succeeds iff the sequence
\* has fewer than capacity - 1 elements, dequeue succeeds iff it is non-empty
\* and returns its head, size() is its length, isEmpty() holds iff the length
\* is 0 and isFull() iff it is capacity - 1; the values dequeued are the
\* values enqueued, in order.
C13_RefinesBoundedFifo ==
    /\ []C13_Observers
    /\ [][C13_EnqueueReturn]_vars
    /\ [][C13_DequeueReturn]_vars

\* an enqueue has just failed on a full queue of four slots whose write
\* cursor has wrapped
C13_Witness ==
    /\ m_capacity = 4
    /\ lastOp = "enqueue" /\ ppc = "idle" /\ p_ret = FALSE
    /\ isFull /\ size = 3
    /\ m_writeIndex < m_readIndex
    /\ Len(delivered) >= 1

C14_AfterClear ==
    /\ (lastOp = "clear" /\ ppc = "idle") =>
          /\ isEmpty
          /\ size = 0
          /\ m_readIndex = p_pre.w
          /\ m_writeIndex = p_pre.w
          /\ m_buffer = p_pre.buf
    /\ (lastOp = "construct" /\ ppc = "idle") => isEmpty

C14_ClearStep ==
    /\ (ppc # ppc' /\ (ppc = "clear_storeRead" \/ ppc' = "clear_storeRead")) =>
          UNCHANGED <<m_writeIndex, m_buffer>>
    /\ (lastOp = "clear" /\ lastOp' = "dequeue") => c_ret' = FALSE

\* C14: in a sequential execution, at every fill level, after clear() returns
\* isEmpty() is true, size() is 0 and the next dequeue returns false; clear()
\* changes only the read cursor; isEmpty() is true right after construction.
C14_ClearEmpties == []C14_AfterClear /\ [][C14_ClearStep]_vars

\* clear() was called on a full queue of four slots and the dequeue called
\* next has returned false
C14_Witness ==
    /\ m_capacity = 4
    /\ nClear = 1
    /\ p_pre.item = 0
    /\ Len(PreContents) = 3
    /\ lastOp = "dequeue" /\ c_ret = FALSE
    /\ Quiescent
    /\ isEmpty
    /\ m_writeIndex = 3

\* one producer thread calling forceEnqueue, one consumer thread calling
\* dequeue and size
InitFS == \E capacity \in Requests : Constructed(capacity)

NextFS ==
    \/ forceEnqueue_loadWrite
    \/ forceEnqueue_checkFull
    \/ forceEnqueue_loadRead
    \/ forceEnqueue_storeRead
    \/ forceEnqueue_writeSlot
    \/ forceEnqueue_storeWrite
    \/ dequeue_loadRead
    \/ dequeue_checkEmpty
    \/ dequeue_copySlot
    \/ dequeue_storeRead
    \/ size_loadWrite
    \/ size_loadRead

SpecFS == InitFS /\ [][NextFS]_vars

C18_SizeReturn ==
    (cpc = "size_loadRead" /\ cpc' = "idle") => s_ret' \in s_seen

\* C18: the value returned by a size() call of the consumer that runs while
\* the producer calls forceEnqueue is a number of elements the queue held at
\* some instant between the first and the second cursor load of the call.
C18_SizeIsSnapshot == [][C18_SizeReturn]_vars

\* C15: in every reachable state of a queue constructed from a request >= 1,
\* size() is in 0 .. capacity - 1, so that size() / capacity() is at least 0
\* and less than 1.
C15_SizeBelowCapacity == size >= 0 /\ size < m_capacity

\* a queue of four slots holds three elements and the write cursor is below
\* the read cursor, so that write - read wraps
C15_Witness ==
    /\ m_capacity = 4
    /\ size = 3
    /\ m_writeIndex < m_readIndex
    /\ ppc = "forceEnqueue_checkFull"

C16_DropStep ==
    (ppc = "forceEnqueue_storeRead" /\ ppc' = "forceEnqueue_writeSlot") =>
        /\ m_readIndex = (m_writeIndex + 1) % m_capacity
        /\ m_readIndex' = (m_readIndex + 1) % m_capacity

\* C16: with a producer calling forceEnqueue and a consumer calling dequeue,
\* whenever forceEnqueue stores the read cursor the queue is full at that
\* moment and the store moves the read cursor by exactly one slot.
C16_DropOnlyWhenFull == [][C16_DropStep]_vars

\* one producer thread calling enqueue and clear, one consumer thread calling
\* dequeue
InitEC == \E capacity \in Requests : Constructed(capacity)

NextEC ==
    \/ enqueue_loadWrite
    \/ enqueue_checkFull
    \/ enqueue_writeSlot
    \/ enqueue_storeWrite
    \/ clear_loadWrite
    \/ clear_storeRead
    \/ dequeue_loadRead
    \/ dequeue_checkEmpty
    \/ dequeue_copySlot
    \/ dequeue_storeRead

SpecEC == InitEC /\ [][NextEC]_vars

\* C17: once a clear() of the producer thread and the dequeue that was in
\* flight have both returned, with no enqueue after the clear(), the queue
\* holds nothing: the next dequeue fails.
C17_ClearDiscardsAll ==
    (nClear >= 1 /\ p_pre.item = 0 /\ Quiescent) => isEmpty

(* ------------------------------ progress ------------------------------ *)

\* lines 45-47, called again with the item of the call that returned false
enqueue_retry ==
    /\ constructed /\ ppc = "idle" /\ nItems >= 1 /\ p_ret = FALSE
    /\ p_item' = nItems
    /\ currentWrite' = m_writeIndex
    /\ nextWrite' = NextIndex(m_writeIndex)
    /\ p_pre' = Snapshot(nItems)
    /\ ppc' = "enqueue_checkFull"
    /\ UNCHANGED <<ctor, shared, p_read, p_ret, consumer, accepted, delivered,
                   nItems, nDeq, nClear, lastOp>>
    /\ Observed
    /\ UNCHANGED weak

\* lines 82-83, called by a consumer that never stops calling dequeue
dequeue_poll ==
    /\ constructed /\ cpc = "idle"
    /\ currentRead' = m_readIndex
    /\ cpc' = "dequeue_checkEmpty"
    /\ UNCHANGED <<ctor, shared, producer, sizecall, c_item, c_ret, hist>>
    /\ UNCHANGED weak

\* a step of the producer that retries enqueue(x) until it returns true
ProducerLive ==
    \/ (nItems = 0 \/ p_ret) /\ enqueue_loadWrite
    \/ enqueue_retry
    \/ enqueue_checkFull
    \/ enqueue_writeSlot
    \/ enqueue_storeWrite

\* a step of the consumer that calls dequeue forever
ConsumerLive ==
    \/ dequeue_poll
    \/ dequeue_checkEmpty
    \/ dequeue_copySlot
    \/ dequeue_storeRead

InitLive == \E capacity \in Requests : Constructed(capacity)

NextLive == ProducerLive \/ ConsumerLive

\* each thread keeps being scheduled
SpecLive ==
    /\ InitLive
    /\ [][NextLive]_vars
    /\ WF_vars(ProducerLive)
    /\ WF_vars(ConsumerLive)

\* C19: under weak fairness of both threads, with a producer that retries
\* enqueue(x) until it returns true and a consumer that calls dequeue
\* forever, every item the producer offers is eventually accepted, every
\* accepted item is eventually returned by a dequeue, and a call in flight
\* always has its next step enabled, whatever the other thread does.
C19_Progress ==
    /\ \A x \in 1 .. MaxItems : (p_item = x) ~> (x \in Range(accepted))
    /\ \A x \in 1 .. MaxItems :
          (x \in Range(accepted)) ~> (x \in Range(delivered))
    /\ [](ppc # "idle" => ENABLED ProducerLive)
    /\ [](cpc # "idle" => ENABLED ConsumerLive)

\* on a queue of two slots the retry of an enqueue that found the queue full
\* is about to succeed
C19_Witness ==
    /\ m_capacity = 2
    /\ ppc = "enqueue_storeWrite"
    /\ p_ret = FALSE
    /\ p_item >= 2
    /\ Len(delivered) = p_item - 1

(* -------------------- release / acquire hand-off ---------------------- *)

\* The cursors under the memory orders the code names.  A store to a cursor
\* is a message: its value and the clock its memory order publishes.  A load
\* of the other thread's cursor may return any store not older than the
\* newest one the thread has already loaded; a thread's load of the cursor
\* it alone stores returns its own last store.  Two accesses to one slot, one
\* of them a write, are a data race unless one happens before the other.

Max(a, b) == IF a >= b THEN a ELSE b

Join(v1, v2) == [p |-> Max(v1.p, v2.p), c |-> Max(v1.c, v2.c)]

\* a store that publishes nothing of what its thread did before it
StoreRelease_relaxed(vc) == ZeroVC

\* store(..., std::memory_order_release), lines 55 and 91: the clock the
\* store carries
StoreRelease(vc) == vc

\* a load that learns nothing from the store it reads
LoadAcquire_relaxed(vc, msg) == vc

\* load(std::memory_order_acquire), lines 49 and 85: the clock of the
\* loading thread after it has read the store msg
LoadAcquire(vc, msg) == Join(vc, msg.vc)

\* the producer's clock at the last write of slot i, 0 for the constructor's
SlotWritten(i) == IF i \in DOMAIN slot_w THEN slot_w[i].at ELSE 0

\* the consumer's clock at its last copy of slot i, 0 if it made none
SlotCopied(i) == IF i \in DOMAIN slot_r THEN slot_r[i] ELSE 0

\* line 54 is unordered with the consumer's last copy of the slot
WriteRace == SlotCopied(currentWrite) > p_vc.c

\* line 90 is unordered with the producer's last write of the slot
ReadRace == SlotWritten(currentRead) > c_vc.p

\* lines 49-52 with an acquire load that may return a stale store
enqueueRA_checkFull ==
    /\ ppc = "enqueue_checkFull"
    /\ \E k \in p_view .. Len(r_msgs) :
          /\ p_view' = k
          /\ p_vc' = LoadAcquire(p_vc, r_msgs[k])
          /\ IF QueueFull(nextWrite, r_msgs[k].val)
             THEN /\ PReturn("enqueue")
                  /\ p_ret' = FALSE
             ELSE /\ ppc' = "enqueue_writeSlot"
                  /\ UNCHANGED <<plocals, p_ret, lastOp>>
    /\ UNCHANGED <<ctor, shared, consumer, accepted, delivered, nItems, nDeq,
                   nClear, p_pre, w_msgs, r_msgs, c_view, c_vc, slot_w,
                   slot_r, raced>>
    /\ Observed

\* line 54: the slot write, a race if the consumer's copy of the slot does
\* not happen before it
enqueueRA_writeSlot ==
    /\ ppc = "enqueue_writeSlot"
    /\ m_buffer' = [m_buffer EXCEPT ![currentWrite] = p_item]
    /\ slot_w' = [i \in DOMAIN slot_w \cup {currentWrite} |->
                    IF i = currentWrite
                    THEN [at |-> p_vc.p, old |-> m_buffer[currentWrite]]
                    ELSE slot_w[i]]
    /\ raced' = (raced \/ WriteRace)
    /\ ppc' = "enqueue_storeWrite"
    /\ UNCHANGED <<ctor, m_writeIndex, m_readIndex, plocals, p_ret, consumer,
                   hist, w_msgs, r_msgs, p_view, c_view, p_vc, c_vc, slot_r>>
    /\ Observed

\* lines 55-56: the release store of m_writeIndex, return true
enqueueRA_storeWrite ==
    /\ ppc = "enqueue_storeWrite"
    /\ m_writeIndex' = nextWrite
    /\ w_msgs' = Append(w_msgs, [val |-> nextWrite, vc |-> StoreRelease(p_vc)])
    /\ p_vc' = [p_vc EXCEPT !.p = @ + 1]
    /\ accepted' = Append(accepted, p_item)
    /\ PReturn("enqueue")
    /\ p_ret' = TRUE
    /\ UNCHANGED <<ctor, m_buffer, m_readIndex, consumer, delivered, nItems,
                   nDeq, nClear, p_pre, r_msgs, p_view, c_view, c_vc, slot_w,
                   slot_r, raced>>
    /\ Observed

\* lines 85-88 with an acquire load that may return a stale store
dequeueRA_checkEmpty ==
    /\ cpc = "dequeue_checkEmpty"
    /\ \E k \in c_view .. Len(w_msgs) :
          /\ c_view' = k
          /\ c_vc' = LoadAcquire(c_vc, w_msgs[k])
          /\ IF QueueEmpty(currentRead, w_msgs[k].val)
             THEN CReturn(FALSE)
             ELSE /\ cpc' = "dequeue_copySlot"
                  /\ UNCHANGED <<currentRead, c_ret, lastOp>>
    /\ UNCHANGED <<ctor, shared, producer, sizecall, c_item, accepted,
                   delivered, nItems, nDeq, nClear, p_pre, w_msgs, r_msgs,
                   p_view, p_vc, slot_w, slot_r, raced>>

\* line 90: the copy of the slot; if the producer's write of the slot does
\* not happen before it, the copy is the written value, the value before
\* it, or a mix of the two
dequeueRA_copySlot ==
    /\ cpc = "dequeue_copySlot"
    /\ c_item' \in IF ReadRace
                   THEN {m_buffer[currentRead], slot_w[currentRead].old, TornT}
                   ELSE {m_buffer[currentRead]}
    /\ slot_r' = [i \in DOMAIN slot_r \cup {currentRead} |->
                    IF i = currentRead THEN c_vc.c ELSE slot_r[i]]
    /\ raced' = (raced \/ ReadRace)
    /\ cpc' = "dequeue_storeRead"
    /\ UNCHANGED <<ctor, shared, producer, sizecall, currentRead, c_ret, hist,
                   w_msgs, r_msgs, p_view, c_view, p_vc, c_vc, slot_w>>

\* lines 91-92: the release store of m_readIndex, return true
dequeueRA_storeRead ==
    /\ cpc = "dequeue_storeRead"
    /\ m_readIndex' = NextIndex(currentRead)
    /\ r_msgs' = Append(r_msgs, [val |-> NextIndex(currentRead),
                                 vc |-> StoreRelease(c_vc)])
    /\ c_vc' = [c_vc EXCEPT !.c = @ + 1]
    /\ delivered' = Append(delivered, c_item)
    /\ CReturn(TRUE)
    /\ UNCHANGED <<ctor, m_buffer, m_writeIndex, producer, sizecall,
                   c_item, accepted, nItems, nDeq, nClear, p_pre, w_msgs,
                   p_view, c_view, p_vc, slot_w, slot_r, raced>>

InitRA == \E capacity \in Requests : Constructed(capacity)

\* enqueue by the producer thread, dequeue by the consumer thread
NextRA ==
    \/ enqueue_loadWrite
    \/ enqueueRA_checkFull
    \/ enqueueRA_writeSlot
    \/ enqueueRA_storeWrite
    \/ dequeue_loadRead
    \/ dequeueRA_checkEmpty
    \/ dequeueRA_copySlot
    \/ dequeueRA_storeRead

SpecRA == InitRA /\ [][NextRA]_vars

\* C20: with the memory orders of the code, no access to a slot races with
\* another; the slot holds the item when enqueue publishes the write cursor;
\* the copy a dequeue publishes is the item enqueue wrote in that slot, in
\* order; and the slot the producer is about to write is one whose last copy
\* by the consumer happens before the write.
C20_HandOff ==
    /\ ~raced
    /\ ppc = "enqueue_storeWrite" => m_buffer[currentWrite] = p_item
    /\ ppc = "enqueue_writeSlot" => ~WriteRace
    /\ cpc = "dequeue_copySlot" => ~ReadRace
    /\ cpc = "dequeue_storeRead" =>
          /\ Len(delivered) < Len(accepted)
          /\ c_item = accepted[Len(delivered) + 1]
    /\ IsPrefix(delivered, accepted)

\* the producer has overwritten a slot the consumer copied, and the consumer
\* has copied a slot after loading a write cursor that is not the newest
C20_Witness ==
    /\ ppc = "enqueue_storeWrite"
    /\ SlotCopied(currentWrite) >= 1
    /\ cpc = "dequeue_storeRead"
    /\ c_view < Len(w_msgs)
    /\ Len(delivered) >= 2

====
